---- MODULE Spec2Model ----
(***************************************************************************)
(* Bubbles Neo: the Bubble model (src/models/bubble.js) over a Neo4j       *)
(* store, and the calls src/routes/bubbles.js makes on it.                 *)
(*                                                                         *)
(* A string is a sequence of one-character strings, "ab" = <<"a","b">>.    *)
(* A Cypher statement is one atomic step of the store.  A Bubble object is *)
(* a slot of `bubbles`; it is owned by the request that obtained it, so    *)
(* the statement and the callback that follows it are one step.            *)
(***************************************************************************)
EXTENDS Naturals, Sequences, FiniteSets, Bags, TLC

\* ------------------------------------------------------------- bounds
MaxNodes == 2       \* nodes the store holds at once
MaxHandles == 2     \* Bubble objects alive at once
MaxRels == 2        \* relationships the store holds at once

NodeIds == 1..MaxNodes
HandleIds == 1..MaxHandles

\* ------------------------------------------------------------- values
\* JavaScript's undefined: no string, so no sequence of characters.
undefined == <<"undefined">>

ab == <<"a", "b">>
cd == <<"c", "d">>

LegalChars ==
    {"A","B","C","D","E","F","G","H","I","J","K","L","M","N","O","P","Q","R",
     "S","T","U","V","W","X","Y","Z","a","b","c","d","e","f","g","h","i","j",
     "k","l","m","n","o","p","q","r","s","t","u","v","w","x","y","z","0","1",
     "2","3","4","5","6","7","8","9","_"}

VALIDATION_INFO ==
    [title |-> [required |-> TRUE, minLength |-> 2, maxLength |-> 55,
                pattern |-> LegalChars]]

\* The titles callers pass: valid ones, the empty string, one that is too
\* short, and undefined for a missing one.
InputTitles == {undefined, <<>>, <<"a">>, ab, cd}

\* The titles callers look up; a request can leave otherTitle out.
GetTitles == {undefined, <<>>, ab, cd}

\* The property names a request body can carry: title, and one the model
\* does not know.
PropKeys == {"title", "junk"}
InputProps ==
    [title : InputTitles, junk : {undefined}]
        \cup [title : {undefined, ab}, junk : {<<"z">>}]

\* The titles validate is given on its own: a run of one character, as long
\* as the bounds of the length around it ask, and then any few characters.
MaxTail == 2
TailChars == {"a", "9", "_", "-"}
PadChars == {"Z", " "}
PadLens ==
    {0, 1, VALIDATION_INFO.title.maxLength - 2,
     VALIDATION_INFO.title.maxLength - 1, VALIDATION_INFO.title.maxLength}
Pad(c, n) == [i \in 1..n |-> c]
Tails == UNION {[1..n -> TailChars] : n \in 0..MaxTail}
ValidateTitles ==
    {undefined} \cup {Pad(c, n) \o t : c \in PadChars, n \in PadLens, t \in Tails}

\* ------------------------------------------------------------- errors
Err(type, kind, prop, title) ==
    [type |-> type, kind |-> kind, prop |-> prop, title |-> title]

null == Err("null", "", "", <<>>)

ValidationError(kind, prop, title) == Err("ValidationError", kind, prop, title)

\* new Error('No such bubble with title: ' + title)
NoSuchBubble(title) == Err("Error", "No such bubble with title", "", title)

\* new Error('Bubble has been deleted! Title: ' + self.title)
BubbleDeleted(title) == Err("Error", "Bubble has been deleted", "", title)

\* bubble.unrelate is not a function
NotAFunction == Err("TypeError", "is not a function", "unrelate", <<>>)

\* What the store client reports.
ConstraintViolation ==
    Err("ClientError", "Neo.ClientError.Schema.ConstraintViolation", "", <<>>)
ParameterMissing ==
    Err("ClientError", "Neo.ClientError.Statement.ParameterMissing", "", <<>>)
StoreDown == Err("StoreError", "no response", "", <<>>)

\* The test without the error's class and code: any error is a violation.
isConstraintViolationAnyError(err) == err.type # "null"

isConstraintViolation(err) ==
    /\ err.type = "ClientError"
    /\ err.kind = "Neo.ClientError.Schema.ConstraintViolation"

\* ------------------------------------------------------------- state
VARIABLES
    nodes,       \* the store: id of a Bubble node -> its properties
    rels,        \* the store: bag of <<from, to>>, the `related` edges
    constraint,  \* the store: the uniqueness constraint on title exists
    crashed,     \* the process threw out of the createConstraint callback
    bubbles,     \* Bubble objects: slot -> _node.properties
    last         \* how the latest call ended

vars == <<nodes, rels, constraint, crashed, bubbles, last>>

\* --------------------------------------------------------- validation
\* !val
Falsy(val) == val = undefined \/ val = <<>>

\* info.pattern.test(val) for /^[A-Za-z0-9_]+$/
PatternTest(pattern, val) ==
    /\ Len(val) >= 1
    /\ \A i \in 1..Len(val) : val[i] \in pattern

\* validateProp with the test of the pattern before the tests of the length.
validatePropPatternFirst(prop, val, required) ==
    LET info == VALIDATION_INFO[prop] IN
    IF Falsy(val)
    THEN IF info.required /\ required
         THEN ValidationError("Missing (required)", prop, <<>>)
         ELSE null
    ELSE IF ~PatternTest(info.pattern, val)
    THEN ValidationError("Invalid (format)", prop, <<>>)
    ELSE IF info.minLength # 0 /\ Len(val) < info.minLength
    THEN ValidationError("Invalid (too short)", prop, <<>>)
    ELSE IF info.maxLength # 0 /\ Len(val) > info.maxLength
    THEN ValidationError("Invalid (too long)", prop, <<>>)
    ELSE null

\* The error validateProp throws, null when it returns.
validateProp(prop, val, required) ==
    LET info == VALIDATION_INFO[prop] IN
    IF Falsy(val)
    THEN IF info.required /\ required
         THEN ValidationError("Missing (required)", prop, <<>>)
         ELSE null
    ELSE IF info.minLength # 0 /\ Len(val) < info.minLength
    THEN ValidationError("Invalid (too short)", prop, <<>>)
    ELSE IF info.maxLength # 0 /\ Len(val) > info.maxLength
    THEN ValidationError("Invalid (too long)", prop, <<>>)
    ELSE IF ~PatternTest(info.pattern, val)
    THEN ValidationError("Invalid (format)", prop, <<>>)
    ELSE null

\* The error validate throws (null when it returns) and the safeProps it
\* returns: the known properties of props, as given.
validate(props, required) ==
    LET bad == {prop \in DOMAIN VALIDATION_INFO :
                    validateProp(prop, props[prop], required) # null}
    IN  [err |-> IF bad = {} THEN null
                 ELSE LET prop == CHOOSE q \in bad : TRUE
                      IN  validateProp(prop, props[prop], required),
         safeProps |-> [prop \in DOMAIN VALIDATION_INFO |-> props[prop]]]

\* ------------------------------------------------------------ the store
RECURSIVE SortedSeq(_)
\* The ids of S in the order the store scans them.
SortedSeq(S) ==
    IF S = {} THEN <<>>
    ELSE LET m == CHOOSE x \in S : \A y \in S : x <= y
         IN  <<m>> \o SortedSeq(S \ {m})

\* MATCH (bubble:Bubble {title: {title}})
Match(title) == {i \in DOMAIN nodes : nodes[i].title = title}

\* A property map as the store keeps it: a key that is missing, or that
\* JSON dropped because its value was undefined, is no property.
Stored(props) ==
    [k \in PropKeys |-> IF k \in DOMAIN props THEN props[k] ELSE undefined]

\* A SET that writes nothing.
MergePropsDropped(old, props) == old

\* SET bubble += {props}
MergeProps(old, props) ==
    [k \in PropKeys |->
        IF k \in DOMAIN props /\ props[k] # undefined THEN props[k] ELSE old[k]]

\* Two nodes of ns hold the same title.
Duplicated(ns) ==
    \E i, j \in DOMAIN ns :
        i # j /\ ns[i].title # undefined /\ ns[i].title = ns[j].title

\* CREATE in the place of MERGE: an edge more at every call.
MergeRelAsCreate(rs, a, b) == rs (+) SetToBag({<<a, b>>})

\* MERGE (bubble) -[rel:related]-> (other), for one row.
MergeRel(rs, a, b) ==
    IF CopiesIn(<<a, b>>, rs) > 0 THEN rs ELSE rs (+) SetToBag({<<a, b>>})

RECURSIVE MergeAll(_, _)
MergeAll(rs, pairs) ==
    IF pairs = {} THEN rs
    ELSE LET p == CHOOSE q \in pairs : TRUE
         IN  MergeAll(MergeRel(rs, p[1], p[2]), pairs \ {p})

\* The edges of rs that are left when those DELETE names are gone.
WithoutRels(rs, gone) ==
    [p \in {q \in DOMAIN rs : q \notin gone} |-> rs[p]]

\* The pattern with an arrow: the outgoing edges only.
IncidentOutgoing(rs, matched) == {p \in DOMAIN rs : p[1] \in matched}

\* (bubble) -[rel:related]- (other) for the matched bubbles: both directions.
Incident(rs, matched) ==
    {p \in DOMAIN rs : p[1] \in matched \/ p[2] \in matched}

RECURSIVE CountRels(_, _, _)
\* COUNT(rel) of the group of `other`: the edges from a matched bubble to it.
CountRels(rs, matched, other) ==
    IF matched = {} THEN 0
    ELSE LET b == CHOOSE x \in matched : TRUE
         IN  CopiesIn(<<b, other>>, rs) + CountRels(rs, matched \ {b}, other)

\* What a statement answers: the error, the store after it, and its rows.
Answer(err, ns, rs, results) ==
    [err |-> err, nodes |-> ns, rels |-> rs, results |-> results]

Refused(err) == Answer(err, nodes, rels, <<>>)

\* CREATE (bubble:Bubble {props}) RETURN bubble
CypherCreate(props) ==
    LET node == Stored(props)
        id == CHOOSE i \in 1..(Cardinality(DOMAIN nodes) + 1) :
                  /\ i \notin DOMAIN nodes
                  /\ \A j \in 1..(i - 1) : j \in DOMAIN nodes
    IN  IF constraint /\ node.title # undefined /\ Match(node.title) # {}
        THEN Refused(ConstraintViolation)
        ELSE Answer(null,
                    [i \in DOMAIN nodes \cup {id} |->
                        IF i = id THEN node ELSE nodes[i]],
                    rels, <<node>>)

\* MATCH (bubble:Bubble {title: {title}}) RETURN bubble
\* JSON drops a parameter that is undefined, and the store refuses the
\* statement for the parameter it misses.
CypherGet(title) ==
    IF title = undefined THEN Refused(ParameterMissing)
    ELSE Answer(null, nodes, rels,
                [n \in 1..Cardinality(Match(title)) |->
                    nodes[SortedSeq(Match(title))[n]]])

\* MATCH (bubble:Bubble) RETURN bubble
CypherGetAll ==
    Answer(null, nodes, rels,
           [n \in 1..Cardinality(DOMAIN nodes) |->
               nodes[SortedSeq(DOMAIN nodes)[n]]])

\* MATCH (bubble:Bubble {title: {title}}) SET bubble += {props} RETURN bubble
CypherPatch(title, props) ==
    LET matched == Match(title)
        after == [i \in DOMAIN nodes |->
                     IF i \in matched THEN MergeProps(nodes[i], props)
                     ELSE nodes[i]]
    IN  IF /\ constraint
                /\ \E i \in matched, j \in DOMAIN nodes :
                       /\ i # j
                       /\ after[i].title # undefined
                       /\ after[i].title = after[j].title
        THEN Refused(ConstraintViolation)
        ELSE Answer(null, after, rels,
                    [n \in 1..Cardinality(matched) |->
                        after[SortedSeq(matched)[n]]])

\* MATCH (bubble:Bubble {title: {title}})
\* OPTIONAL MATCH (bubble) -[rel:related]- (other) DELETE bubble, rel
CypherDel(title) ==
    LET matched == Match(title) IN
    Answer(null,
           [i \in DOMAIN nodes \ matched |-> nodes[i]],
           WithoutRels(rels, Incident(rels, matched)),
           <<>>)

\* MATCH (bubble ..) MATCH (other ..) MERGE (bubble) -[rel:related]-> (other)
CypherRelate(thisTitle, otherTitle) ==
    Answer(null, nodes,
           MergeAll(rels, Match(thisTitle) \X Match(otherTitle)),
           <<>>)

\* MATCH (bubble ..) MATCH (other ..) MATCH (bubble) -[rel:related]-> (other)
\* DELETE rel
CypherUnfollow(thisTitle, otherTitle) ==
    Answer(null, nodes,
           WithoutRels(rels, Match(thisTitle) \X Match(otherTitle)),
           <<>>)

\* MATCH (bubble ..) MATCH (other:Bubble)
\* OPTIONAL MATCH (bubble) -[rel:related]-> (other) RETURN other, COUNT(rel)
CypherRelatedToAndOthers(thisTitle) ==
    LET matched == Match(thisTitle)
        others == IF matched = {} THEN {} ELSE DOMAIN nodes
    IN  Answer(null, nodes, rels,
               [n \in 1..Cardinality(others) |->
                   LET o == SortedSeq(others)[n]
                   IN  [other |-> nodes[o],
                        count |-> CountRels(rels, matched, o)]])

\* db.cypher: the statement's answer, or no answer when the store is down.
cypher(answer, down) == IF down THEN Refused(StoreDown) ELSE answer

\* ------------------------------------------------------ the callbacks
\* How a call ended: through its callback or by throwing, with which
\* error, and with which lists of Bubbles.
Outcome(op, via, err, relatedTo, others, all) ==
    [op |-> op, via |-> via, err |-> err,
     relatedTo |-> relatedTo, others |-> others, all |-> all]

Called(op, err) == Outcome(op, "callback", err, <<>>, <<>>, <<>>)
Thrown(op, err) == Outcome(op, "throw", err, <<>>, <<>>, <<>>)

\* new errors.ValidationError('The title ...' + props.title + '... is taken.')
TitleTaken(props) == ValidationError("is taken", "title", props.title)

\* Bubble.create's callback: the error it passes on and the Bubble it makes.
createCallback(props, answer) ==
    LET err == IF isConstraintViolation(answer.err) THEN TitleTaken(props)
               ELSE answer.err
    IN  IF err # null THEN [err |-> err, made |-> FALSE, node |-> Stored(<<>>)]
        ELSE [err |-> null, made |-> TRUE, node |-> answer.results[1]]

\* Bubble.get's callback.
getCallback(title, answer) ==
    IF answer.err # null
    THEN [err |-> answer.err, made |-> FALSE, node |-> Stored(<<>>)]
    ELSE IF Len(answer.results) = 0
    THEN [err |-> NoSuchBubble(title), made |-> FALSE, node |-> Stored(<<>>)]
    ELSE [err |-> null, made |-> TRUE, node |-> answer.results[1]]

\* The callback without its test of results.length.
patchCallbackNoLengthTest(self, props, answer) ==
    LET err == IF isConstraintViolation(answer.err) THEN TitleTaken(props)
               ELSE answer.err
    IN  IF err # null THEN [err |-> err, node |-> self]
        ELSE [err |-> null,
              node |-> IF Len(answer.results) = 0 THEN self
                       ELSE answer.results[1]]

\* The callback without its assignment to self._node.
patchCallbackNoRefresh(self, props, answer) ==
    LET err == IF isConstraintViolation(answer.err) THEN TitleTaken(props)
               ELSE answer.err
    IN  IF err # null THEN [err |-> err, node |-> self]
        ELSE IF Len(answer.results) = 0
        THEN [err |-> BubbleDeleted(self.title), node |-> self]
        ELSE [err |-> null, node |-> self]

\* patch's callback: the error it passes on and what self._node is after.
patchCallback(self, props, answer) ==
    LET err == IF isConstraintViolation(answer.err) THEN TitleTaken(props)
               ELSE answer.err
    IN  IF err # null THEN [err |-> err, node |-> self]
        ELSE IF Len(answer.results) = 0
        THEN [err |-> BubbleDeleted(self.title), node |-> self]
        ELSE [err |-> null, node |-> answer.results[1]]

\* getRelatedToAndOthers' callback: the two lists, in the rows' order.
relatedToOf(self, results) ==
    LET Keep(row) == self.title # row.other.title /\ row.count # 0
        kept == SelectSeq(results, Keep)
    IN  [n \in 1..Len(kept) |-> kept[n].other]

othersOf(self, results) ==
    LET Keep(row) == self.title # row.other.title /\ row.count = 0
        kept == SelectSeq(results, Keep)
    IN  [n \in 1..Len(kept) |-> kept[n].other]

\* ----------------------------------------------------------- the calls
EmptyFn == [i \in {} |-> 0]

Init ==
    /\ nodes = EmptyFn
    /\ rels = EmptyBag
    /\ constraint = FALSE
    /\ crashed = FALSE
    /\ bubbles = EmptyFn
    /\ last = Called("none", null)

\* The store takes a statement's answer.
Commit(answer) ==
    /\ nodes' = answer.nodes
    /\ rels' = answer.rels

\* Slot h holds the Bubble wrapping node.
Hold(h, node) ==
    bubbles' = [x \in DOMAIN bubbles \cup {h} |->
                   IF x = h THEN node ELSE bubbles[x]]

\* db.createConstraint and its callback: if (err) throw err.
createConstraint(down) ==
    /\ ~crashed
    /\ ~constraint
    /\ IF down \/ Duplicated(nodes)
       THEN crashed' = TRUE /\ UNCHANGED constraint
       ELSE constraint' = TRUE /\ UNCHANGED crashed
    /\ UNCHANGED <<nodes, rels, bubbles, last>>

\* Bubble.create(props, callback). exports.create, the one caller, reads the
\* new Bubble's title and lets the Bubble go.
create(props, down) ==
    /\ ~crashed
    /\ LET v == validate(props, FALSE) IN
       IF v.err # null
       THEN /\ last' = Thrown("create", v.err)
            /\ UNCHANGED <<nodes, rels, bubbles>>
       ELSE LET answer == cypher(CypherCreate(v.safeProps), down)
                cb == createCallback(props, answer)
            IN  /\ DOMAIN answer.nodes \subseteq NodeIds
                /\ Commit(answer)
                /\ last' = Called("create", cb.err)
                /\ UNCHANGED bubbles
    /\ UNCHANGED <<constraint, crashed>>

\* Bubble.get(title, callback); the Bubble goes to slot h.
get(h, title, down) ==
    /\ ~crashed
    /\ LET answer == cypher(CypherGet(title), down)
           cb == getCallback(title, answer)
       IN  /\ Commit(answer)
           /\ IF cb.made THEN Hold(h, cb.node) ELSE UNCHANGED bubbles
           /\ last' = Called("get", cb.err)
    /\ UNCHANGED <<constraint, crashed>>

\* Bubble.getAll(callback)
getAll(down) ==
    /\ ~crashed
    /\ LET answer == cypher(CypherGetAll, down) IN
       /\ Commit(answer)
       /\ last' = Outcome("getAll", "callback", answer.err,
                          <<>>, <<>>, answer.results)
    /\ UNCHANGED <<constraint, crashed, bubbles>>

\* bubbles[h].patch(props, callback)
patch(h, props, down) ==
    /\ ~crashed
    /\ h \in DOMAIN bubbles
    /\ LET self == bubbles[h]
           v == validate(props, FALSE)
       IN  IF v.err # null
           THEN /\ last' = Thrown("patch", v.err)
                /\ UNCHANGED <<nodes, rels, bubbles>>
           ELSE LET answer == cypher(CypherPatch(self.title, v.safeProps), down)
                    cb == patchCallback(self, props, answer)
                IN  /\ Commit(answer)
                    /\ Hold(h, cb.node)
                    /\ last' = Called("patch", cb.err)
    /\ UNCHANGED <<constraint, crashed>>

\* bubbles[h].del(callback)
del(h, down) ==
    /\ ~crashed
    /\ h \in DOMAIN bubbles
    /\ LET answer == cypher(CypherDel(bubbles[h].title), down) IN
       /\ Commit(answer)
       /\ last' = Called("del", answer.err)
    /\ UNCHANGED <<constraint, crashed, bubbles>>

\* bubbles[h].relate(bubbles[o], callback)
relate(h, o, down) ==
    /\ ~crashed
    /\ h \in DOMAIN bubbles
    /\ o \in DOMAIN bubbles
    /\ LET answer == cypher(CypherRelate(bubbles[h].title, bubbles[o].title),
                            down)
       IN  /\ BagCardinality(answer.rels) <= MaxRels
           /\ Commit(answer)
           /\ last' = Called("relate", answer.err)
    /\ UNCHANGED <<constraint, crashed, bubbles>>

\* bubbles[h].unfollow(bubbles[o], callback)
unfollow(h, o, down) ==
    /\ ~crashed
    /\ h \in DOMAIN bubbles
    /\ o \in DOMAIN bubbles
    /\ LET answer == cypher(CypherUnfollow(bubbles[h].title, bubbles[o].title),
                            down)
       IN  /\ Commit(answer)
           /\ last' = Called("unfollow", answer.err)
    /\ UNCHANGED <<constraint, crashed, bubbles>>

\* bubbles[h].unrelate(bubbles[o], callback), as exports.unrelate calls it:
\* Bubble.prototype has no unrelate, so the call throws.
unrelate(h, o) ==
    /\ ~crashed
    /\ h \in DOMAIN bubbles
    /\ o \in DOMAIN bubbles
    /\ last' = Thrown("unrelate", NotAFunction)
    /\ UNCHANGED <<nodes, rels, constraint, crashed, bubbles>>

\* bubbles[h].getRelatedToAndOthers(callback)
getRelatedToAndOthers(h, down) ==
    /\ ~crashed
    /\ h \in DOMAIN bubbles
    /\ LET self == bubbles[h]
           answer == cypher(CypherRelatedToAndOthers(self.title), down)
       IN  /\ Commit(answer)
           /\ last' = IF answer.err # null
                      THEN Called("getRelatedToAndOthers", answer.err)
                      ELSE Outcome("getRelatedToAndOthers", "callback", null,
                                   relatedToOf(self, answer.results),
                                   othersOf(self, answer.results), <<>>)
    /\ UNCHANGED <<constraint, crashed, bubbles>>

\* A call the store answers, with every input.
Answered ==
    \/ createConstraint(FALSE)
    \/ \E props \in InputProps : create(props, FALSE)
    \/ \E h \in HandleIds, title \in GetTitles : get(h, title, FALSE)
    \/ getAll(FALSE)
    \/ \E h \in HandleIds, props \in InputProps : patch(h, props, FALSE)
    \/ \E h \in HandleIds : del(h, FALSE)
    \/ \E h, o \in HandleIds : relate(h, o, FALSE)
    \/ \E h, o \in HandleIds : unfollow(h, o, FALSE)
    \/ \E h, o \in HandleIds : unrelate(h, o)
    \/ \E h \in HandleIds : getRelatedToAndOthers(h, FALSE)

\* A call the store does not answer: which valid input it carries makes no
\* difference to how it ends.
Unanswered ==
    \/ createConstraint(TRUE)
    \/ create([title |-> ab, junk |-> undefined], TRUE)
    \/ \E h \in HandleIds : get(h, ab, TRUE)
    \/ getAll(TRUE)
    \/ \E h \in HandleIds : patch(h, [title |-> ab, junk |-> undefined], TRUE)
    \/ \E h \in HandleIds : del(h, TRUE)
    \/ \E h, o \in HandleIds : relate(h, o, TRUE)
    \/ \E h, o \in HandleIds : unfollow(h, o, TRUE)
    \/ \E h \in HandleIds : getRelatedToAndOthers(h, TRUE)

Next == Answered \/ Unanswered

Spec == Init /\ [][Next]_vars

\* ------------------------------------------------- validate on its own
\* A call of validate(props, required) about to be made, with its arguments.
ValidateInit ==
    /\ nodes = EmptyFn
    /\ rels = EmptyBag
    /\ constraint = FALSE
    /\ crashed = FALSE
    /\ bubbles = EmptyFn
    /\ \E title \in ValidateTitles, junk \in {undefined, <<"z">>},
          required \in BOOLEAN :
           last = [op |-> "none", via |-> "callback", err |-> null,
                   props |-> [title |-> title, junk |-> junk],
                   required |-> required]

\* validate(props, required) runs: `last` keeps the arguments, whether it
\* threw or returned, the error and the safeProps.
callValidate ==
    /\ last.op = "none"
    /\ LET v == validate(last.props, last.required) IN
       last' = [op |-> "validate",
                via |-> IF v.err # null THEN "throw" ELSE "return",
                err |-> v.err,
                props |-> last.props,
                required |-> last.required,
                safeProps |-> v.safeProps]
    /\ UNCHANGED <<nodes, rels, constraint, crashed, bubbles>>

ValidateNext == callValidate

ValidateSpec == ValidateInit /\ [][ValidateNext]_vars

\* ------------------------------------------------------------ claims
\* A title validate lets through as a title: present and within the rules.
ValidTitle(title) ==
    ~Falsy(title) /\ validateProp("title", title, TRUE) = null

\* What Bubble.get(title) gives in the current state when the store answers.
GetNow(title) == getCallback(title, CypherGet(title))

\* What getRelatedToAndOthers gives for a Bubble in the current state.
RelatedToNow(self) ==
    relatedToOf(self, CypherRelatedToAndOthers(self.title).results)
OthersNow(self) ==
    othersOf(self, CypherRelatedToAndOthers(self.title).results)

\* The titles of a list of Bubbles.
TitlesOf(list) == {list[n].title : n \in 1..Len(list)}

\* C1: in every reachable state no two Bubble nodes have the same title,
\* also while the registration of the uniqueness constraint is pending.
\* Stated for the titles the data model admits, the least the claim says.
C1_UniqueTitles ==
    \A i, j \in DOMAIN nodes :
        (i # j /\ ValidTitle(nodes[i].title)) => nodes[i].title # nodes[j].title

\* C2: in every reachable state every `related` edge has both endpoints
\* among the existing Bubble nodes: del leaves no edge of the deleted node
\* behind, in either direction, and relate makes no edge to a missing node.
C2_EdgesBetweenNodes ==
    \A p \in DOMAIN rels : p[1] \in DOMAIN nodes /\ p[2] \in DOMAIN nodes

\* del has acted, and the edges that are left join nodes that are left.
C2_Witness ==
    /\ last.op = "del"
    /\ last.err = null
    /\ DOMAIN nodes # {}
    /\ rels # EmptyBag

\* C3: create with a valid title that a node already has ends in the
\* ValidationError "is taken" and leaves nodes and edges as they were;
\* create with a valid title that no node has ends without error, adds
\* exactly one node, with that title, and get of that title then gives a
\* Bubble with that title.
C3_CreateTakenOrFresh ==
    [][last'.op = "create" =>
        \A props \in InputProps :
            (ValidTitle(props.title) /\ create(props, FALSE)) =>
                IF Match(props.title) # {}
                THEN /\ last'.err = TitleTaken(props)
                     /\ nodes' = nodes
                     /\ rels' = rels
                ELSE /\ last'.err = null
                     /\ Cardinality(DOMAIN nodes') = Cardinality(DOMAIN nodes) + 1
                     /\ \A i \in DOMAIN nodes :
                            i \in DOMAIN nodes' /\ nodes'[i] = nodes[i]
                     /\ \A i \in DOMAIN nodes' \ DOMAIN nodes :
                            nodes'[i].title = props.title
                     /\ GetNow(props.title)'.err = null
                     /\ GetNow(props.title)'.node.title = props.title]_vars

\* C4: create validates with requireAll = true: a create whose title is
\* absent or empty ends in the ValidationError "Missing title (required)."
\* and leaves the store as it was.
C4_CreateRequiresTitle ==
    [][last'.op = "create" =>
        \A props \in InputProps, down \in BOOLEAN :
            (Falsy(props.title) /\ create(props, down)) =>
                /\ last'.err = ValidationError("Missing (required)", "title", <<>>)
                /\ nodes' = nodes
                /\ rels' = rels]_vars

\* C5: a patch that ends without error and whose title New is valid, is not
\* the Bubble's own and is held by no node renames in place: afterwards
\* get(New) succeeds, get of the old title fails, and there are as many
\* nodes as before.
C5_PatchRenames ==
    [][(last'.op = "patch" /\ last'.err = null) =>
        \A h \in DOMAIN bubbles, props \in InputProps :
            \A old \in {bubbles[h].title} :
                (/\ ValidTitle(props.title)
                 /\ props.title # old
                 /\ Match(props.title) = {}
                 /\ patch(h, props, FALSE)) =>
                    /\ GetNow(props.title)'.err = null
                    /\ GetNow(props.title)'.node.title = props.title
                    /\ GetNow(old)'.err = NoSuchBubble(old)
                    /\ Cardinality(DOMAIN nodes') = Cardinality(DOMAIN nodes)]_vars

\* A patch has renamed the only node from ab to cd: a Bubble got earlier
\* still says ab.
C5_Witness ==
    /\ last.op = "patch"
    /\ last.err = null
    /\ Cardinality(DOMAIN nodes) = 1
    /\ Match(cd) # {}
    /\ \E h, o \in DOMAIN bubbles : bubbles[h].title = cd /\ bubbles[o].title = ab

\* C6: patch of an existing Bubble to the title of a different existing
\* node ends in the ValidationError "is taken" and changes nothing, in the
\* store or in the Bubble; patch to its own title ends without error.
C6_PatchTaken ==
    [][last'.op = "patch" =>
        \A h \in DOMAIN bubbles, props \in InputProps :
            (/\ ValidTitle(props.title)
             /\ ValidTitle(bubbles[h].title)
             /\ Match(bubbles[h].title) # {}
             /\ patch(h, props, FALSE)) =>
                /\ (/\ props.title # bubbles[h].title
                    /\ Match(props.title) # {}) =>
                        /\ last'.err = TitleTaken(props)
                        /\ nodes' = nodes
                        /\ rels' = rels
                        /\ bubbles' = bubbles
                /\ props.title = bubbles[h].title => last'.err = null]_vars

\* C7: a patch through a Bubble whose title no node holds any more ends,
\* through its callback, in the plain Error "Bubble has been deleted" (no
\* ValidationError, no success), makes no node and leaves the Bubble's
\* snapshot as it was.
C7_PatchAfterDelete ==
    [][last'.op = "patch" =>
        \A h \in DOMAIN bubbles, props \in InputProps :
            (/\ Match(bubbles[h].title) = {}
             /\ validate(props, FALSE).err = null
             /\ patch(h, props, FALSE)) =>
                /\ last'.via = "callback"
                /\ last'.err = BubbleDeleted(bubbles[h].title)
                /\ last'.err.type = "Error"
                /\ nodes' = nodes
                /\ rels' = rels
                /\ bubbles' = bubbles]_vars

\* A patch has ended in "Bubble has been deleted" for a Bubble whose title
\* no node holds.
C7_Witness ==
    /\ last.op = "patch"
    /\ last.err.kind = "Bubble has been deleted"
    /\ \E h \in DOMAIN bubbles :
           bubbles[h].title = last.err.title /\ Match(bubbles[h].title) = {}

\* C8: relate is idempotent: after relate(A, B) on existing Bubbles there
\* is exactly one edge from A to B, a relate that finds the edge leaves the
\* store as it was, and getRelatedToAndOthers of A then has B in relatedTo,
\* B not in others, and A in neither.
C8_RelateIdempotent ==
    [][(last'.op = "relate" /\ last'.err = null) =>
        \A h, o \in DOMAIN bubbles :
            \A A \in {bubbles[h]}, B \in {bubbles[o]} :
                (/\ Match(A.title) # {}
                 /\ Match(B.title) # {}
                 /\ relate(h, o, FALSE)) =>
                    /\ \A p \in Match(A.title) \X Match(B.title) :
                           CopiesIn(p, rels') = 1
                    /\ (\A p \in Match(A.title) \X Match(B.title) :
                           CopiesIn(p, rels) >= 1) => rels' = rels
                    /\ nodes' = nodes
                    /\ A.title # B.title =>
                           /\ B.title \in TitlesOf(RelatedToNow(A)')
                           /\ B.title \notin TitlesOf(OthersNow(A)')
                    /\ A.title \notin TitlesOf(RelatedToNow(A)')
                    /\ A.title \notin TitlesOf(OthersNow(A)')]_vars

\* relate has made the one edge from the node ab to the node cd.
C8_Witness ==
    /\ last.op = "relate"
    /\ last.err = null
    /\ \E a \in Match(ab), b \in Match(cd) : CopiesIn(<<a, b>>, rels) = 1

\* C9: unrelate(A, B), as exports.unrelate calls it on the Bubbles get gave,
\* ends without error and removes the edge from A to B, so that
\* getRelatedToAndOthers of A then has B in others and not in relatedTo.
C9_UnrelateRemoves ==
    [][last'.op = "unrelate" =>
        \A h, o \in DOMAIN bubbles :
            \A A \in {bubbles[h]}, B \in {bubbles[o]} :
                (/\ A.title # B.title
                 /\ ValidTitle(A.title)
                 /\ ValidTitle(B.title)
                 /\ \E p \in Match(A.title) \X Match(B.title) :
                        CopiesIn(p, rels) >= 1
                 /\ unrelate(h, o)) =>
                    /\ last'.err = null
                    /\ \A p \in Match(A.title) \X Match(B.title) :
                           CopiesIn(p, rels') = 0
                    /\ B.title \in TitlesOf(OthersNow(A)')
                    /\ B.title \notin TitlesOf(RelatedToNow(A)')]_vars

\* C10: get(title) ends in a NotFoundError "No such bubble with title"
\* exactly when no node has the title; otherwise it gives a Bubble with
\* that title.
C10_GetNotFound ==
    [][last'.op = "get" =>
        \A h \in HandleIds, title \in GetTitles \ {undefined} :
            get(h, title, FALSE) =>
                IF Match(title) = {}
                THEN /\ last'.err.type = "NotFoundError"
                     /\ last'.err.kind = "No such bubble with title"
                     /\ last'.err.title = title
                ELSE /\ last'.err = null
                     /\ bubbles'[h].title = title]_vars

\* The Bubbles of the nodes ids, in the order the store scans them.
ListOf(ids) == [n \in 1..Cardinality(ids) |-> nodes[SortedSeq(ids)[n]]]

\* C11: for an existing Bubble A, in any state of the store,
\* getRelatedToAndOthers gives a partition of all nodes other than A:
\* relatedTo holds exactly the nodes X # A with an edge from A to X, others
\* exactly the nodes X # A without one, every node once; A is in neither
\* list, a self-edge or not, and an edge from X to A does not put X in
\* relatedTo.
C11_ListPartition ==
    [][(last'.op = "getRelatedToAndOthers" /\ last'.err = null) =>
        \A h \in DOMAIN bubbles :
            (/\ ValidTitle(bubbles[h].title)
             /\ Match(bubbles[h].title) # {}
             /\ getRelatedToAndOthers(h, FALSE)) =>
                \E A \in Match(bubbles[h].title) :
                    LET rest == DOMAIN nodes \ {A}
                        to == {X \in rest : CopiesIn(<<A, X>>, rels) > 0}
                    IN  /\ last'.relatedTo = ListOf(to)
                        /\ last'.others = ListOf(rest \ to)]_vars

\* C12: validate accepts a present title exactly when it matches
\* ^[A-Za-z0-9_]{2,55}$, and rejects any other with the ValidationError of
\* the first test it fails, in the order minimum length, maximum length,
\* pattern: a title of one illegal character is too short, an over-long one
\* with an illegal character is too long.
C12_ValidateTitle ==
    (last.op = "validate" /\ ~Falsy(last.props.title)) =>
        LET title == last.props.title
            legal == \A i \in 1..Len(title) : title[i] \in LegalChars
        IN  /\ last.err = null <=> (Len(title) \in 2..55 /\ legal)
            /\ last.err # null =>
                   /\ last.via = "throw"
                   /\ last.err.type = "ValidationError"
                   /\ last.err.prop = "title"
                   /\ last.err.kind =
                          IF Len(title) < 2 THEN "Invalid (too short)"
                          ELSE IF Len(title) > 55 THEN "Invalid (too long)"
                          ELSE "Invalid (format)"

\* validate has refused a title of more than 55 characters with an illegal
\* one among them as too long.
C12_Witness ==
    /\ last.op = "validate"
    /\ last.err.kind = "Invalid (too long)"
    /\ Len(last.props.title) = 56
    /\ \E i \in 1..56 : last.props.title[i] \notin LegalChars

\* C13: every ValidationError of create or patch, of a field rule or of the
\* uniqueness constraint, reaches the caller as the err of the call's
\* callback; a failed field rule never leaves the call as an exception.
C13_ValidationErrorsDelivered ==
    (last.op \in {"create", "patch"} /\ last.err.type = "ValidationError") =>
        last.via = "callback"

\* C14: after a patch that ends without error the Bubble's snapshot is the
\* node the store returned for the patch, so its title is the title the
\* store now holds for that node; after a patch that ends in an error, of
\* validation, of a taken title, of a deleted node or of the store, the
\* snapshot is as before.  No other Bubble changes.
C14_PatchRefreshesSnapshot ==
    [][last'.op = "patch" =>
        IF last'.err # null
        THEN bubbles' = bubbles
        ELSE \A h \in DOMAIN bubbles, props \in InputProps :
                 patch(h, props, FALSE) =>
                     /\ \E i \in Match(bubbles[h].title) :
                            bubbles'[h] = nodes'[i]
                     /\ \A i \in Match(bubbles[h].title) :
                            nodes'[i].title = bubbles'[h].title
                     /\ \A o \in DOMAIN bubbles \ {h} :
                            bubbles'[o] = bubbles[o]]_vars

\* A patch has renamed the only node from cd to ab, and the Bubble it was
\* called on says ab; a Bubble got before the patch still says cd.
C14_Witness ==
    /\ last.op = "patch"
    /\ last.err = null
    /\ Cardinality(DOMAIN nodes) = 1
    /\ \E h, o \in DOMAIN bubbles :
           /\ bubbles[h].title = ab
           /\ bubbles[o].title = cd
           /\ \E i \in DOMAIN nodes : nodes[i] = bubbles[h]

\* C15: in every reachable state, whatever create and patch were given, an
\* absent or an empty title included, every Bubble node of the store has a
\* title of 2 to 55 characters of [A-Za-z0-9_].
C15_StoredTitlesValid ==
    \A i \in DOMAIN nodes : ValidTitle(nodes[i].title)

\* C16: del through a Bubble whose node the store no longer holds, deleted
\* or renamed since the Bubble was got, ends without error and leaves every
\* node and edge as it was; del of a node the store holds removes exactly
\* that one node.
C16_DeleteAbsentOrPresent ==
    [][last'.op = "del" =>
        \A h \in DOMAIN bubbles :
            (ValidTitle(bubbles[h].title) /\ del(h, FALSE)) =>
                /\ last'.err = null
                /\ IF Match(bubbles[h].title) = {}
                   THEN nodes' = nodes /\ rels' = rels
                   ELSE \E A \in Match(bubbles[h].title) :
                            nodes' = [i \in DOMAIN nodes \ {A} |-> nodes[i]]]_vars

\* The properties callers pass that validate lets through.
ValidInputProps == {props \in InputProps : validate(props, FALSE).err = null}

\* The call ends through its callback with the store's error err, and the
\* store and the Bubbles in memory are as before.
PassedOn(err) ==
    /\ last'.via = "callback"
    /\ last'.err = err
    /\ UNCHANGED <<nodes, rels, bubbles>>

\* C17: each operation (create, get, getAll, patch, del, relate, unfollow
\* for unrelate, getRelatedToAndOthers) sends its one statement once: when
\* the store answers with an error that is no violation of the uniqueness
\* constraint, the call ends through its callback with that same error, no
\* second statement takes effect, and the store and the Bubbles in memory
\* are as before.  The calls are those of Unanswered, and a get whose
\* statement the store refuses for its missing parameter.
C17_StoreErrorsPassThrough ==
    [][/\ last'.op = "create" =>
            \A props \in ValidInputProps :
                create(props, TRUE) => PassedOn(StoreDown)
       /\ last'.op = "get" =>
            \A h \in HandleIds :
                /\ (\E title \in GetTitles \ {undefined} : get(h, title, TRUE)) =>
                       PassedOn(StoreDown)
                /\ get(h, undefined, FALSE) => PassedOn(ParameterMissing)
       /\ last'.op = "getAll" => (getAll(TRUE) => PassedOn(StoreDown))
       /\ last'.op = "patch" =>
            \A h \in DOMAIN bubbles :
                patch(h, [title |-> ab, junk |-> undefined], TRUE) =>
                    PassedOn(StoreDown)
       /\ last'.op = "del" =>
            \A h \in DOMAIN bubbles : del(h, TRUE) => PassedOn(StoreDown)
       /\ last'.op = "relate" =>
            \A h, o \in DOMAIN bubbles :
                relate(h, o, TRUE) => PassedOn(StoreDown)
       /\ last'.op = "unfollow" =>
            \A h, o \in DOMAIN bubbles :
                unfollow(h, o, TRUE) => PassedOn(StoreDown)
       /\ last'.op = "getRelatedToAndOthers" =>
            \A h \in DOMAIN bubbles :
                getRelatedToAndOthers(h, TRUE) => PassedOn(StoreDown)]_vars

\* A patch on a Bubble of an existing node has ended in the store's error.
C17_Witness ==
    /\ last.op = "patch"
    /\ last.err = StoreDown
    /\ \E h \in DOMAIN bubbles : Match(bubbles[h].title) # {}

\* C18: a patch whose properties hold no title, or the empty title, or only
\* a property the model does not know, passes validation and ends without
\* error, leaves the title of every node as it was and stores no unknown
\* property.
C18_PatchWithoutTitle ==
    [][last'.op = "patch" =>
        \A h \in DOMAIN bubbles, props \in InputProps :
            (/\ Falsy(props.title)
             /\ ValidTitle(bubbles[h].title)
             /\ Match(bubbles[h].title) # {}
             /\ patch(h, props, FALSE)) =>
                /\ last'.via = "callback"
                /\ last'.err = null
                /\ DOMAIN nodes' = DOMAIN nodes
                /\ \A i \in DOMAIN nodes :
                       /\ nodes'[i].title = nodes[i].title
                       /\ nodes'[i].junk = undefined]_vars

\* C19: unrelate(A, B), the model's unfollow, changes at most the one edge
\* from A to B: the edge from B to A, every other edge and every node are
\* as before; when there is no edge from A to B the call ends without
\* error and the store is as before.
C19_UnrelateFrame ==
    [][last'.op = "unfollow" =>
        \A h, o \in DOMAIN bubbles :
            (/\ ValidTitle(bubbles[h].title)
             /\ ValidTitle(bubbles[o].title)
             /\ unfollow(h, o, FALSE)) =>
                LET AB == Match(bubbles[h].title) \X Match(bubbles[o].title)
                IN  /\ last'.err = null
                    /\ nodes' = nodes
                    /\ \/ rels' = rels
                       \/ \E e \in AB :
                              rels' = WithoutRels(rels, {e})
                    /\ (\A e \in AB : CopiesIn(e, rels) = 0) => rels' = rels]_vars

\* C20: a patch that ends without error and renames a node keeps the node
\* and its relations: the edges and the node ids are as before, so
\* getRelatedToAndOthers of the renamed Bubble gives the relatedTo it gave
\* before, and a Bubble that related to it still lists it in relatedTo,
\* under its new title.
C20_RenameKeepsRelations ==
    [][(last'.op = "patch" /\ last'.err = null) =>
        \A h \in DOMAIN bubbles, props \in InputProps :
            \A old \in {bubbles[h]}, before \in {RelatedToNow(bubbles[h])} :
                (/\ ValidTitle(props.title)
                 /\ ValidTitle(old.title)
                 /\ props.title # old.title
                 /\ patch(h, props, FALSE)) =>
                    /\ rels' = rels
                    /\ DOMAIN nodes' = DOMAIN nodes
                    /\ RelatedToNow(bubbles[h])' = before
                    /\ \A X \in DOMAIN nodes \ Match(old.title) :
                           \A other \in {nodes[X]} :
                               (/\ ValidTitle(other.title)
                                /\ \E A \in Match(old.title) :
                                       CopiesIn(<<X, A>>, rels) > 0) =>
                                   props.title \in TitlesOf(RelatedToNow(other)')]_vars

====
